---- MODULE Spec2Model ----
(***************************************************************************)
(* Poseidon hash (plain and optimized variants) and its parameter          *)
(* generation: round numbers, Grain-LFSR round constants, Cauchy MDS       *)
(* matrix, optimized constants and sparse matrix factorization.            *)
(*                                                                         *)
(* Vectors and matrices are sequences (1-based); the code's index i is the *)
(* model's index i + 1.  Field elements are integers in 0 .. p-1.          *)
(***************************************************************************)
EXTENDS Integers, Sequences, FiniteSets, TLC

VARIABLES
    args,        \* constructor arguments of the instance under test
    inst,        \* the constructed instance (its immutable tables), or a failure
    state,       \* self.state of the instance
    rc_counter,  \* self.rc_counter of the instance
    last,        \* the last finished run_hash call: its input and its outcome
    callers,     \* concurrent callers of run_hash: input, position, outcome
    gen          \* working state of the parameter generators

vars == <<args, inst, state, rc_counter, last, callers, gen>>

(***************************************************************************)
(* Field arithmetic: galois.GF(p)                                          *)
(***************************************************************************)

\* field_p(v): galois accepts exactly the integers 0 <= v < p
InField(v, p) == v >= 0 /\ v < p

FAdd(a, b, p) == (a + b) % p

FMul(a, b, p) == (a * b) % p

RECURSIVE FPow(_, _, _)
FPow(x, e, p) == IF e = 0 THEN 1 % p ELSE FMul(x, FPow(x, e - 1, p), p)

\* x ** (-1) for x # 0 (galois raises ZeroDivisionError for x = 0)
FInv(x, p) == FPow(x, p - 2, p)

RECURSIVE Gcd(_, _)
Gcd(a, b) == IF b = 0 THEN a ELSE Gcd(b, a % b)

(***************************************************************************)
(* Matrix layer: numpy operations on galois arrays                         *)
(***************************************************************************)

RECURSIVE SumTo(_, _, _)
\* sum over k in 1..n of f[k], reduced mod p
SumTo(f, n, p) == IF n = 0 THEN 0 ELSE (SumTo(f, n - 1, p) + f[n]) % p

Rows(m) == Len(m)

Cols(m) == IF Len(m) = 0 THEN 0 ELSE Len(m[1])

\* np.matmul(M, v): defined when the column count of M is len(v)
MatVecOk(m, v) == Cols(m) = Len(v)

MatVec(m, v, p) ==
    [i \in 1..Rows(m) |-> SumTo([j \in 1..Len(v) |-> m[i][j] * v[j]], Len(v), p)]

\* np.dot(v, M), v @ M: defined when len(v) is the row count of M
VecMatOk(v, m) == Len(v) = Rows(m)

VecMat(v, m, p) ==
    [j \in 1..Cols(m) |-> SumTo([i \in 1..Len(v) |-> v[i] * m[i][j]], Len(v), p)]

MatMul(a, b, p) ==
    [i \in 1..Rows(a) |->
        [j \in 1..Cols(b) |->
            SumTo([k \in 1..Rows(b) |-> a[i][k] * b[k][j]], Rows(b), p)]]

Identity(n) == [i \in 1..n |-> [j \in 1..n |-> IF i = j THEN 1 ELSE 0]]

\* the sequence s without its k-th element
DropAt(s, k) == [x \in 1..(Len(s) - 1) |-> IF x < k THEN s[x] ELSE s[x + 1]]

Minor(m, i, j) == [x \in 1..(Len(m) - 1) |-> DropAt(DropAt(m, i)[x], j)]

RECURSIVE Det(_, _)
Det(m, p) ==
    IF Len(m) = 0 THEN 1 % p
    ELSE SumTo([j \in 1..Len(m) |->
                  ((IF j % 2 = 1 THEN 1 ELSE p - 1) * m[1][j] * Det(Minor(m, 1, j), p)) % p],
               Len(m), p)

\* np.linalg.inv raises LinAlgError exactly for a singular matrix
Invertible(m, p) == Det(m, p) # 0

\* np.linalg.inv(m) over GF(p), for an invertible square m
MatInv(m, p) ==
    LET n == Len(m)
        d == FInv(Det(m, p), p)
    IN  [i \in 1..n |->
            [j \in 1..n |->
                ((IF (i + j) % 2 = 0 THEN 1 ELSE p - 1) * d * Det(Minor(m, j, i), p)) % p]]

(***************************************************************************)
(* Round-constant generator: Grain LFSR in self-shrinking mode             *)
(***************************************************************************)

RECURSIVE Bin(_)
\* bin(x)[2:] for x >= 0: the binary digits of x, most significant first
Bin(x) == IF x < 2 THEN <<x>> ELSE Append(Bin(x \div 2), x % 2)

\* str.zfill(w): zeros on the left up to width w, never a truncation
ZFill(s, w) == [k \in 1..(IF Len(s) < w THEN w - Len(s) ELSE 0) |-> 0] \o s

ExpFlag(alpha) ==
    IF alpha = 3 THEN 0 ELSE IF alpha = 5 THEN 1 ELSE IF alpha = -1 THEN 2 ELSE 3

init_state_for_grain(alpha, p, prime_bit_len, t, full_round, partial_round) ==
    ZFill(Bin(p % 2), 2) \o ZFill(Bin(ExpFlag(alpha)), 4)
        \o ZFill(Bin(prime_bit_len), 12) \o ZFill(Bin(t), 12)
        \o ZFill(Bin(full_round), 10) \o ZFill(Bin(partial_round), 10)
        \o [k \in 1..30 |-> 1]

Xor(a, b) == (a + b) % 2

\* state[62] ^ state[51] ^ state[38] ^ state[23] ^ state[13] ^ state[0]
NewBit(s) == Xor(s[63], Xor(s[52], Xor(s[39], Xor(s[24], Xor(s[14], s[1])))))

\* state.pop(0); state.append(new_bit)
LfsrShift(s) == Append(Tail(s), NewBit(s))

RECURSIVE LfsrShiftN(_, _)
\* n shifts of the window (halved, so that the evaluation stays shallow)
LfsrShiftN(s, n) ==
    IF Len(s) = 0 \/ n = 0 THEN s
    ELSE IF n = 1 THEN LfsrShift(s)
    ELSE LfsrShiftN(LfsrShiftN(s, n \div 2), n - (n \div 2))

\* the first 160 output bits are discarded
WarmUp(s) == LfsrShiftN(s, 160)

\* the pair step with the roles of the two bits exchanged: the first bit is
\* kept when the second is 1
PairStepKeepFirst(g) ==
    LET s1 == LfsrShift(g.state)
        s2 == LfsrShift(s1)
        b1 == s1[Len(s1)]
        b2 == s2[Len(s2)]
    IN  [g EXCEPT !.state = s2,
                  !.bits = IF b2 = 1 THEN Append(g.bits, b1) ELSE g.bits]

\* one iteration of the loop of calc_next_bits on g = [state, bits, rc_field]
PairStep(g) ==
    LET s1 == LfsrShift(g.state)
        s2 == LfsrShift(s1)
        new_bit_1 == s1[Len(s1)]
        new_bit_2 == s2[Len(s2)]
    IN  [g EXCEPT !.state = s2,
                  !.bits = IF new_bit_1 = 1 THEN Append(g.bits, new_bit_2) ELSE g.bits]

RECURSIVE BigEndian(_)
\* int("".join(str(i) for i in bits), 2)
BigEndian(bits) ==
    IF Len(bits) = 0 THEN 0
    ELSE 2 * BigEndian(SubSeq(bits, 1, Len(bits) - 1)) + bits[Len(bits)]

\* the rest of one iteration of the loop of calc_round_constants, once
\* calc_next_bits has returned prime_bit_len bits
BlockStep(g, p) ==
    LET rc_int == BigEndian(g.bits)
    IN  [g EXCEPT !.bits = <<>>,
                  !.rc_field = IF rc_int < p THEN Append(g.rc_field, rc_int)
                               ELSE g.rc_field]

GrainStart(t, full_round, partial_round, p, alpha, prime_bit_len) ==
    [state |-> WarmUp(init_state_for_grain(alpha, p, prime_bit_len, t,
                                           full_round, partial_round)),
     bits |-> <<>>, rc_field |-> <<>>]

RECURSIVE calc_next_bits(_, _)
\* while len(bits) < prime_bit_len: one more pair
calc_next_bits(g, prime_bit_len) ==
    IF Len(g.bits) >= prime_bit_len THEN g
    ELSE calc_next_bits(PairStep(g), prime_bit_len)

RECURSIVE GrainRun(_, _, _, _)
\* while len(rc_field) < rc_number: the next block, accepted or discarded
GrainRun(g, rc_number, p, prime_bit_len) ==
    IF Len(g.rc_field) >= rc_number THEN g
    ELSE GrainRun(BlockStep(calc_next_bits(g, prime_bit_len), p),
                  rc_number, p, prime_bit_len)

calc_round_constants(t, full_round, partial_round, p, alpha, prime_bit_len) ==
    GrainRun(GrainStart(t, full_round, partial_round, p, alpha, prime_bit_len),
             t * (full_round + partial_round), p, prime_bit_len).rc_field

(***************************************************************************)
(* Results of operations that may raise                                    *)
(***************************************************************************)

Ok(v) == [ok |-> TRUE, val |-> v, err |-> ""]

Raise(e) == [ok |-> FALSE, val |-> <<>>, err |-> e]

\* Optional[...] constructor arguments
None == [some |-> FALSE, v |-> <<>>]

Some(x) == [some |-> TRUE, v |-> x]

(***************************************************************************)
(* Hexadecimal input: a numeral is its sequence of digits (0 .. 15)        *)
(***************************************************************************)

RECURSIVE HexInt(_)
\* int(x, 16)
HexInt(x) ==
    IF Len(x) = 0 THEN 0
    ELSE 16 * HexInt(SubSeq(x, 1, Len(x) - 1)) + x[Len(x)]

get_field_matrix_from_hex_matrix(p, mds_matrix) ==
    LET n == Len(mds_matrix)
        \* the entries in the order the two loops visit them
        row(k) == ((k - 1) \div n) + 1
        col(k) == ((k - 1) % n) + 1
        short(k) == Len(mds_matrix[row(k)]) < col(k)
        bad(k) == short(k) \/ ~InField(HexInt(mds_matrix[row(k)][col(k)]), p)
    IN  IF \E k \in 1..(n * n) : bad(k)
        THEN LET k0 == CHOOSE k \in 1..(n * n) :
                           bad(k) /\ \A k2 \in 1..(k - 1) : ~bad(k2)
             IN  IF short(k0) THEN Raise("IndexError") ELSE Raise("ValueError")
        ELSE Ok([i \in 1..n |-> [j \in 1..n |-> HexInt(mds_matrix[i][j])]])

(***************************************************************************)
(* MDS matrix generator (Cauchy matrix)                                    *)
(***************************************************************************)

\* x_vec[i] + y_vec[j] for the code's 0-based i, j
CauchySum(i, j, t, p) == FAdd(i, t + j, p)

\* the entry left as the sum, not inverted
CauchyEntryNoInverse(i, j, t, p) == CauchySum(i, j, t, p)

\* mds_matrix[i, j] = (x_vec[i] + y_vec[j]) ** (-1)
CauchyEntry(i, j, t, p) == FInv(CauchySum(i, j, t, p), p)

mds_matrix_generator(p, t) ==
    IF \E ele \in 0..(2 * t - 1) : ~InField(ele, p)
    THEN Raise("ValueError")
    ELSE IF \E i \in 0..(t - 1), j \in 0..(t - 1) : CauchySum(i, j, t, p) = 0
    THEN Raise("ZeroDivisionError")
    ELSE Ok([i \in 1..t |-> [j \in 1..t |-> CauchyEntry(i - 1, j - 1, t, p)]])

(***************************************************************************)
(* Optimization transform                                                  *)
(***************************************************************************)

RECURSIVE Flatten(_)
Flatten(ss) == IF Len(ss) = 0 THEN <<>> ELSE ss[1] \o Flatten(Tail(ss))

Reverse(s) == [k \in 1..Len(s) |-> s[Len(s) + 1 - k]]

VecAdd(a, b, p) == [k \in 1..Len(a) |-> FAdd(a[k], b[k], p)]

\* np.array_split(rc_field, len(rc_field) / t): chunks of t constants
SplitRc(rc_field, t) ==
    [c \in 1..(Len(rc_field) \div t) |-> SubSeq(rc_field, (c - 1) * t + 1, c * t)]

RECURSIVE PartialConsts(_, _, _, _, _, _, _)
\* the loop of optimized_rc over r in range(0, partial_round); rc is the
\* chunk list, rc[k + 1] the code's rc[k]
PartialConsts(r, acc, partial_const, rc, final_round, partial_round, mp) ==
    IF r >= partial_round THEN [acc |-> acc, partial_const |-> partial_const]
    ELSE LET acc_1 == VecMat(acc, mp.m_inv, mp.p)
             zeroed == [acc_1 EXCEPT ![1] = 0]
         IN  PartialConsts(r + 1, VecAdd(zeroed, rc[final_round - r - 1 + 1], mp.p),
                           Append(partial_const, acc_1[1]),
                           rc, final_round, partial_round, mp)

\* optimized_rc without the chunk for the round half_full_round - 1
BoundaryChunkOmitted(rc, half_full_round, partial_round, mds_matrix, p) ==
    IF Rows(mds_matrix) = 0 \/ ~Invertible(mds_matrix, p) THEN Raise("LinAlgError")
    ELSE IF half_full_round + partial_round + 1 > Len(rc) THEN Raise("IndexError")
    ELSE IF \E c \in 1..Len(rc) : ~VecMatOk(rc[c], mds_matrix) THEN Raise("ValueError")
    ELSE
      LET m_inv == MatInv(mds_matrix, p)
          final_round == half_full_round + partial_round
          first == [r \in 1..(IF half_full_round > 1 THEN half_full_round - 1 ELSE 0) |->
                       VecMat(rc[r + 1], m_inv, p)]
          pc == PartialConsts(0, rc[final_round + 1], <<>>, rc, final_round,
                              partial_round, [m_inv |-> m_inv, p |-> p])
          lastc == [r \in 1..(IF half_full_round > 1 THEN half_full_round - 1 ELSE 0) |->
                       VecMat(rc[final_round + r + 1], m_inv, p)]
      IN  Ok(rc[1] \o Flatten(first)
                \o Reverse(pc.partial_const) \o Flatten(lastc))

optimized_rc(rc, half_full_round, partial_round, mds_matrix, p) ==
    IF Rows(mds_matrix) = 0 \/ ~Invertible(mds_matrix, p) THEN Raise("LinAlgError")
    ELSE IF half_full_round + partial_round + 1 > Len(rc) THEN Raise("IndexError")
    ELSE IF \E c \in 1..Len(rc) : ~VecMatOk(rc[c], mds_matrix) THEN Raise("ValueError")
    ELSE
      LET m_inv == MatInv(mds_matrix, p)
          final_round == half_full_round + partial_round
          first == [r \in 1..(IF half_full_round > 1 THEN half_full_round - 1 ELSE 0) |->
                       VecMat(rc[r + 1], m_inv, p)]
          pc == PartialConsts(0, rc[final_round + 1], <<>>, rc, final_round,
                              partial_round, [m_inv |-> m_inv, p |-> p])
          lastc == [r \in 1..(IF half_full_round > 1 THEN half_full_round - 1 ELSE 0) |->
                       VecMat(rc[final_round + r + 1], m_inv, p)]
      IN  Ok(rc[1] \o Flatten(first) \o VecMat(pc.acc, m_inv, p)
                \o Reverse(pc.partial_const) \o Flatten(lastc))

\* m[1:, 1:]
LowerRight(m) == [i \in 1..(Len(m) - 1) |-> [j \in 1..(Len(m) - 1) |-> m[i + 1][j + 1]]]

\* m[1:, 0]
FirstColTail(m) == [i \in 1..(Len(m) - 1) |-> m[i + 1][1]]

\* w_cap computed on the wrong side: w @ m_inv
WCapRowSide(m, p) == VecMat(FirstColTail(m), MatInv(LowerRight(m), p), p)

\* w_cap = m_inv @ w
WCap(m, p) == MatVec(MatInv(LowerRight(m), p), FirstColTail(m), p)

sparse_factorize(m, p) ==
    IF ~Invertible(LowerRight(m), p) THEN Raise("LinAlgError")
    ELSE
      LET n == Len(m)
          m_1 == [i \in 1..n |-> [j \in 1..n |->
                    IF i = 1 /\ j = 1 THEN 1
                    ELSE IF i = 1 \/ j = 1 THEN 0 ELSE m[i][j]]]
          w_cap == WCap(m, p)
          m_2 == [i \in 1..n |-> [j \in 1..n |->
                    IF i = 1 THEN m[1][j]
                    ELSE IF j = 1 THEN w_cap[i - 1]
                    ELSE IF i = j THEN 1 ELSE 0]]
      IN  IF m # MatMul(m_1, m_2, p) THEN Raise("AssertionError")
          ELSE Ok([m_1 |-> m_1, m_2 |-> m_2])

RECURSIVE OptMatrixLoop(_, _, _, _, _, _)
\* the loop of optimized_matrix over r in range(0, partial_round)
OptMatrixLoop(r, m, sparse_matrices, mds_matrix, partial_round, p) ==
    IF r >= partial_round
    THEN Ok([pre_matrix |-> m, sparse_matrices |-> Reverse(sparse_matrices)])
    ELSE LET f == sparse_factorize(m, p)
         IN  IF ~f.ok THEN f
             ELSE OptMatrixLoop(r + 1, MatMul(mds_matrix, f.val.m_1, p),
                                Append(sparse_matrices, f.val.m_2),
                                mds_matrix, partial_round, p)

optimized_matrix(mds_matrix, partial_round, p) ==
    OptMatrixLoop(0, mds_matrix, <<>>, mds_matrix, partial_round, p)

(***************************************************************************)
(* Integers beyond the model's machine width: <<hi, lo>> is hi * 2^64 + lo *)
(* with 0 <= lo < 2^64.  Every prime of the model is below 2^64.           *)
(***************************************************************************)

Wide(hi, lo) == <<hi, lo>>

\* field_p(v) for a wide integer
InFieldW(w, p) == w[1] = 0 /\ InField(w[2], p)

\* field_p(vec): a ValueError when some element is outside 0 .. p-1
FieldVec(vec, p) ==
    IF \E k \in 1..Len(vec) : ~InFieldW(vec[k], p) THEN Raise("ValueError")
    ELSE Ok([k \in 1..Len(vec) |-> vec[k][2]])

(***************************************************************************)
(* Construction: Poseidon.__init__ and OptimizedPoseidon.__init__          *)
(***************************************************************************)

RECURSIVE CeilLog2(_)
\* ceil(log2(p)) for p >= 1
CeilLog2(p) == IF p <= 1 THEN 0 ELSE 1 + CeilLog2((p + 1) \div 2)

\* (len(mds_matrix) != self.t) & (len(mds_matrix[0]) != self.t)
MdsSizeRejected(a) ==
    (Len(a.mds_matrix.v) # a.t) /\ (Len(a.mds_matrix.v[1]) # a.t)

InitMds(a) ==
    IF a.mds_matrix.some
    THEN IF Len(a.mds_matrix.v) = 0 THEN Raise("IndexError")
         ELSE IF MdsSizeRejected(a) THEN Raise("ValueError")
         ELSE get_field_matrix_from_hex_matrix(a.p, a.mds_matrix.v)
    ELSE mds_matrix_generator(a.p, a.t)

\* len(rc_list) != self.t * (self.full_round + self.partial_round)
RcCountRejected(a) == Len(a.rc_list.v) # a.t * (a.full_round + a.partial_round)

InitRc(a) ==
    IF a.rc_list.some
    THEN IF RcCountRejected(a) THEN Raise("ValueError")
         ELSE IF \E k \in 1..Len(a.rc_list.v) : ~InField(HexInt(a.rc_list.v[k]), a.p)
         THEN Raise("ValueError")
         ELSE Ok([k \in 1..Len(a.rc_list.v) |-> HexInt(a.rc_list.v[k])])
    ELSE Ok(calc_round_constants(a.t, a.full_round, a.partial_round, a.p, a.alpha,
                                 IF a.prime_bit_len.some THEN a.prime_bit_len.v
                                 ELSE CeilLog2(a.p)))

Failed(e) == [ok |-> FALSE, err |-> e]

\* Poseidon.__init__ with full_round and partial_round given
PoseidonInit(a) ==
    IF Gcd(a.alpha, a.p - 1) # 1 THEN Failed("SystemExit")
    ELSE LET m == InitMds(a)
         IN  IF ~m.ok THEN Failed(m.err)
             ELSE LET c == InitRc(a)
                  IN  IF ~c.ok THEN Failed(c.err)
                      ELSE [ok |-> TRUE, variant |-> "plain", hash_type |-> a.h_type,
                            p |-> a.p, alpha |-> a.alpha, t |-> a.t,
                            input_rate |-> a.input_rate,
                            full_round |-> a.full_round,
                            partial_round |-> a.partial_round,
                            half_full_round |-> a.full_round \div 2,
                            mds_matrix |-> m.val, rc_field |-> c.val,
                            opt_rc_field |-> <<>>, pre_matrix |-> <<>>,
                            spase_matrices |-> <<>>]

OptimizedPoseidonInit(a) ==
    LET base == PoseidonInit(a)
    IN  IF ~base.ok THEN base
        ELSE LET o == optimized_rc(SplitRc(base.rc_field, base.t), base.half_full_round,
                                   base.partial_round, base.mds_matrix, base.p)
             IN  IF ~o.ok THEN Failed(o.err)
                 ELSE LET om == optimized_matrix(base.mds_matrix, base.partial_round,
                                                 base.p)
                      IN  IF ~om.ok THEN Failed(om.err)
                          ELSE [base EXCEPT !.variant = "opt",
                                            !.opt_rc_field = o.val,
                                            !.pre_matrix = om.val.pre_matrix,
                                            !.spase_matrices = om.val.sparse_matrices]

Construct(a) == IF a.variant = "opt" THEN OptimizedPoseidonInit(a) ELSE PoseidonInit(a)

\* self.state = self.field_p.Zeros(self.t)
Zeros(n) == [k \in 1..n |-> 0]

(***************************************************************************)
(* Hashing: run_hash as the sequence of its steps.  A step is one          *)
(* statement group of the code: the entry of run_hash, one constant        *)
(* addition, one S-box, one matrix multiplication, the return.             *)
(***************************************************************************)

Op(k, i) == [k |-> k, i |-> i]

Max0(n) == IF n < 0 THEN 0 ELSE n

\* s repeated for r in range(0, n)
Rep(n, s) == Flatten([r \in 1..Max0(n) |-> s])

\* Poseidon.full_rounds
PlainFullOps(I) ==
    Rep(I.half_full_round,
        Flatten([i \in 1..I.t |-> <<Op("arc", i - 1), Op("sbox", i - 1)>>])
            \o <<Op("matmul", 0)>>)

\* Poseidon.partial_rounds
PlainPartialOps(I) ==
    Rep(I.partial_round,
        [i \in 1..I.t |-> Op("arc", i - 1)] \o <<Op("sbox", 0), Op("matmul", 0)>>)

\* Poseidon.run_hash
PlainOps(I) ==
    <<Op("enter", 0)>> \o PlainFullOps(I) \o PlainPartialOps(I) \o PlainFullOps(I)
        \o <<Op("return", 0)>>

\* OptimizedPoseidon.full_rounds with one round fewer
OneFullRoundFewer(I) ==
    Rep(I.half_full_round - 2,
        Flatten([i \in 1..I.t |-> <<Op("sbox", i - 1), Op("arc_opt", i - 1)>>])
            \o <<Op("dot_mds", 0)>>)

\* OptimizedPoseidon.full_rounds
OptFullOps(I) ==
    Rep(I.half_full_round - 1,
        Flatten([i \in 1..I.t |-> <<Op("sbox", i - 1), Op("arc_opt", i - 1)>>])
            \o <<Op("dot_mds", 0)>>)

\* OptimizedPoseidon.partial_rounds
OptPartialOps(I) ==
    Flatten([r \in 1..Max0(I.partial_round) |->
                <<Op("sbox", 0), Op("arc_opt", 0), Op("dot_sparse", r - 1)>>])

\* OptimizedPoseidon.run_hash
OptOps(I) ==
    <<Op("enter_opt", 0)>>
        \o [i \in 1..I.t |-> Op("arc_opt", i - 1)]
        \o OptFullOps(I)
        \o Flatten([i \in 1..I.t |-> <<Op("sbox", i - 1), Op("arc_opt", i - 1)>>])
        \o <<Op("dot_pre", 0)>>
        \o OptPartialOps(I)
        \o OptFullOps(I)
        \o [i \in 1..I.t |-> Op("sbox", i - 1)]
        \o <<Op("dot_mds", 0), Op("return", 0)>>

Ops(I) == IF I.variant = "opt" THEN OptOps(I) ELSE PlainOps(I)

\* 2 ** n for small n
RECURSIVE Pow2(_)
Pow2(n) == IF n = 0 THEN 1 ELSE 2 * Pow2(n - 1)

\* domain separation with the merkle-tree tag 2 ** lv, the 1 not subtracted
TagNotDecremented(I, input_vec) ==
    LET lv == Len(input_vec)
        domain_tag == IF I.hash_type = "MerkleTree" THEN Wide(0, Pow2(lv))
                      ELSE IF I.hash_type = "ConstInputLen" THEN Wide(lv, 0)
                      ELSE Wide(0, 0)
        padding == IF I.hash_type = "ConstInputLen"
                   THEN [k \in 1..Max0(I.input_rate - lv) |-> Wide(0, 0)]
                   ELSE <<>>
    IN  <<domain_tag>> \o input_vec \o padding

\* OptimizedPoseidon.domain_separation
domain_separation(I, input_vec) ==
    LET lv == Len(input_vec)
        domain_tag == IF I.hash_type = "MerkleTree" THEN Wide(0, Pow2(lv) - 1)
                      ELSE IF I.hash_type = "ConstInputLen" THEN Wide(lv, 0)
                      ELSE Wide(0, 0)
        padding == IF I.hash_type = "ConstInputLen"
                   THEN [k \in 1..Max0(I.input_rate - lv) |-> Wide(0, 0)]
                   ELSE <<>>
    IN  <<domain_tag>> \o input_vec \o padding

\* The outcome of a step on the instance fields sh = [state, rc_counter]:
\* the fields after it, whether the call has ended, and its result if so.
Cont(st, rcc) == [state |-> st, rc_counter |-> rcc, done |-> FALSE, out |-> Ok(0)]

Stop(st, rcc, out) == [state |-> st, rc_counter |-> rcc, done |-> TRUE, out |-> out]

\* if len(input_vec) < self.t: input_vec.extend([0] * (self.t - len(input_vec)))
PadToT(I, input_vec) ==
    input_vec \o [k \in 1..Max0(I.t - Len(input_vec)) |-> Wide(0, 0)]

\* the entry of Poseidon.run_hash without the reset of the cursor
EnterPlainNoReset(I, sh, input_vec) ==
    LET f == FieldVec(PadToT(I, input_vec), I.p)
    IN  IF ~f.ok THEN Stop(sh.state, sh.rc_counter, Raise(f.err))
        ELSE Cont(f.val, sh.rc_counter)

\* the entry of Poseidon.run_hash: pad, convert, reset the cursor
EnterPlain(I, sh, input_vec) ==
    LET f == FieldVec(PadToT(I, input_vec), I.p)
    IN  IF ~f.ok THEN Stop(sh.state, sh.rc_counter, Raise(f.err))
        ELSE Cont(f.val, 0)

\* the length test of OptimizedPoseidon.run_hash with > in place of >=
InputTooLongStrict(I, input_vec) == Len(input_vec) > I.t

\* len(input_vec) >= self.t
InputTooLong(I, input_vec) == Len(input_vec) >= I.t

\* the entry of OptimizedPoseidon.run_hash: length test, cursor reset,
\* domain separation, conversion
EnterOpt(I, sh, input_vec) ==
    IF InputTooLong(I, input_vec)
    THEN Stop(sh.state, sh.rc_counter, Raise("Invalid length of input data"))
    ELSE LET f == FieldVec(domain_separation(I, input_vec), I.p)
         IN  IF ~f.ok THEN Stop(sh.state, 0, Raise(f.err))
             ELSE Cont(f.val, 0)

\* self.state[i] = self.state[i] + table[self.rc_counter]; self.rc_counter += 1
AddConst(I, sh, i, table) ==
    IF i + 1 > Len(sh.state) \/ sh.rc_counter + 1 > Len(table)
    THEN Stop(sh.state, sh.rc_counter, Raise("IndexError"))
    ELSE Cont([sh.state EXCEPT ![i + 1] = FAdd(@, table[sh.rc_counter + 1], I.p)],
              sh.rc_counter + 1)

\* self.state[i] = self.s_box(self.state[i])
SBox(I, sh, i) ==
    IF i + 1 > Len(sh.state) THEN Stop(sh.state, sh.rc_counter, Raise("IndexError"))
    ELSE Cont([sh.state EXCEPT ![i + 1] = FPow(@, I.alpha, I.p)], sh.rc_counter)

\* self.state = np.matmul(self.mds_matrix, self.state)
MatMulState(I, sh) ==
    IF ~MatVecOk(I.mds_matrix, sh.state)
    THEN Stop(sh.state, sh.rc_counter, Raise("ValueError"))
    ELSE Cont(MatVec(I.mds_matrix, sh.state, I.p), sh.rc_counter)

\* self.state = np.dot(self.state, m)
DotState(I, sh, m) ==
    IF ~VecMatOk(sh.state, m) THEN Stop(sh.state, sh.rc_counter, Raise("ValueError"))
    ELSE Cont(VecMat(sh.state, m, I.p), sh.rc_counter)

\* return self.state[1]
Return(I, sh) ==
    IF Len(sh.state) < 2 THEN Stop(sh.state, sh.rc_counter, Raise("IndexError"))
    ELSE Stop(sh.state, sh.rc_counter, Ok(sh.state[2]))

Step(I, op, sh, input_vec) ==
    CASE op.k = "enter"      -> EnterPlain(I, sh, input_vec)
      [] op.k = "enter_opt"  -> EnterOpt(I, sh, input_vec)
      [] op.k = "arc"        -> AddConst(I, sh, op.i, I.rc_field)
      [] op.k = "arc_opt"    -> AddConst(I, sh, op.i, I.opt_rc_field)
      [] op.k = "sbox"       -> SBox(I, sh, op.i)
      [] op.k = "matmul"     -> MatMulState(I, sh)
      [] op.k = "dot_mds"    -> DotState(I, sh, I.mds_matrix)
      [] op.k = "dot_pre"    -> DotState(I, sh, I.pre_matrix)
      [] op.k = "dot_sparse" -> DotState(I, sh, I.spase_matrices[op.i + 1])
      [] op.k = "return"     -> Return(I, sh)

RECURSIVE RunFrom(_, _, _, _, _)
\* the steps of one call from step ip on, with no other caller in between
RunFrom(I, ops, ip, sh, input_vec) ==
    LET s == Step(I, ops[ip], sh, input_vec)
    IN  IF s.done THEN s ELSE RunFrom(I, ops, ip + 1, s, input_vec)

\* instance.run_hash(input_vec) on the instance fields sh
run_hash(I, sh, input_vec) == RunFrom(I, Ops(I), 1, sh, input_vec)

(***************************************************************************)
(* Bounded inputs                                                          *)
(***************************************************************************)

\* (p, alpha); alpha = 3 is not coprime to 7 - 1
FieldChoices == {<<5, 3>>, <<7, 5>>, <<7, 3>>, <<11, 3>>}

Widths == {2, 3}

\* (full_round, partial_round)
RoundChoices == {<<2, 1>>, <<4, 1>>, <<3, 2>>}

Hex(v) == <<v>>

HexRow(r) == [k \in 1..Len(r) |-> Hex(r[k])]

HexMatrix(m) == [i \in 1..Len(m) |-> HexRow(m[i])]

\* supplied matrices: symmetric, not symmetric, and of wrong shapes
MatrixChoices(t) ==
    IF t = 2
    THEN {None,
          Some(HexMatrix(<<<<1, 2>>, <<2, 1>>>>)),
          Some(HexMatrix(<<<<1, 2>>, <<3, 4>>>>)),
          Some(HexMatrix(<<<<1, 2>>>>)),
          Some(HexMatrix(<<<<1, 2, 0>>, <<3, 4, 0>>>>)),
          Some(HexMatrix(<<<<1, 2>>, <<3, 4>>, <<1, 1>>>>)),
          Some(HexMatrix(<<<<1>>, <<3>>>>)),
          Some(HexMatrix(<<<<1, 2, 0>>, <<3, 4, 0>>, <<0, 0, 1>>>>))}
    ELSE {None,
          Some(HexMatrix(<<<<1, 2, 0>>, <<3, 4, 0>>, <<0, 1, 1>>>>)),
          Some(HexMatrix(<<<<1, 2, 0>>, <<3, 4, 0>>>>))}

\* supplied constants: of the right count, one short, one long
RcChoices(t, full_round, partial_round) ==
    LET n == t * (full_round + partial_round)
    IN  {None,
         Some([k \in 1..n |-> Hex((k * k + 1) % 5)]),
         Some([k \in 1..(n - 1) |-> Hex(k % 5)]),
         Some([k \in 1..(n + 1) |-> Hex(k % 5)])}

ArgSet ==
    { [variant |-> v[1], h_type |-> v[2], p |-> f[1], alpha |-> f[2], t |-> t,
       input_rate |-> ir, full_round |-> rn[1], partial_round |-> rn[2],
       mds_matrix |-> m, rc_list |-> c, prime_bit_len |-> None] :
        v \in {<<"plain", "ConstInputLen">>, <<"opt", "ConstInputLen">>,
               <<"opt", "MerkleTree">>},
        f \in FieldChoices, t \in Widths, ir \in 1..3, rn \in RoundChoices,
        m \in UNION {MatrixChoices(w) : w \in Widths},
        c \in UNION {RcChoices(w, r[1], r[2]) : w \in Widths, r \in RoundChoices} }

IsShaped(m, rows, cols) ==
    Len(m) = rows /\ \A i \in 1..Len(m) : Len(m[i]) = cols

ValidArgs(a) ==
    /\ a.input_rate <= a.t
    /\ (a.variant = "plain" \/ a.h_type = "MerkleTree") => a.input_rate = a.t - 1
    /\ a.mds_matrix \in MatrixChoices(a.t)
    /\ a.rc_list \in RcChoices(a.t, a.full_round, a.partial_round)
    \* supplied tables are tried on the smallest width and field, wrong
    \* shapes and counts on the smallest round numbers
    /\ a.rc_list.some => (a.p = 5 /\ a.t = 2)
    /\ (a.mds_matrix.some /\ ~IsShaped(a.mds_matrix.v, a.t, a.t)) => a.full_round = 2
    /\ (a.rc_list.some /\ Len(a.rc_list.v) # a.t * (a.full_round + a.partial_round))
          => (a.full_round = 2 /\ ~a.mds_matrix.some)
    /\ a.t = 2 => a.p \in {5, 7}
    /\ a.t = 3 => (a.p \in {7, 11} /\ a.full_round < 4)
    /\ (a.p = 7 /\ a.t = 3) => (a.alpha = 5 /\ ~a.mds_matrix.some /\ a.full_round = 2)
    /\ (a.p = 7 /\ a.alpha = 3) => (~a.mds_matrix.some /\ a.full_round = 2)

\* the values run_hash inputs hold
WideVals == {Wide(0, 0), Wide(0, 1)}

RECURSIVE SeqsUpTo(_, _)
\* the sequences over S of length at most n
SeqsUpTo(S, n) ==
    IF n = 0 THEN {<<>>}
    ELSE LET shorter == SeqsUpTo(S, n - 1)
         IN  shorter \cup {Append(q, x) : q \in {y \in shorter : Len(y) = n - 1}, x \in S}

\* inputs shorter than t, of length t, and one longer
Inputs(t) == SeqsUpTo(WideVals, t + 1)

(***************************************************************************)
(* Sequential use of one instance                                          *)
(***************************************************************************)

\* nth: 0 before the first call, 1 after it, 2 after any later call
NoCall == [nth |-> 0, input |-> <<>>, out |-> Ok(0)]

Idle == [fn |-> "none"]

Fresh(I) == [state |-> Zeros(I.t), rc_counter |-> 0]

Init ==
    /\ args \in {a \in ArgSet : ValidArgs(a)}
    /\ inst = Construct(args)
    /\ state = IF inst.ok THEN Zeros(inst.t) ELSE <<>>
    /\ rc_counter = 0
    /\ last = NoCall
    /\ callers = <<>>
    /\ gen = Idle

\* one call of run_hash, from its entry to its return or its exception
RunHash(x) ==
    /\ inst.ok
    /\ LET s == run_hash(inst, [state |-> state, rc_counter |-> rc_counter], x)
       IN  /\ state' = s.state
           /\ rc_counter' = s.rc_counter
           /\ last' = [nth |-> IF last.nth = 0 THEN 1 ELSE 2, input |-> x, out |-> s.out]
    /\ UNCHANGED <<args, inst, callers, gen>>

Next == inst.ok /\ \E x \in Inputs(inst.t) : RunHash(x)

Spec == Init /\ [][Next]_vars

(***************************************************************************)
(* Properties of sequential use                                            *)
(***************************************************************************)

\* the plain instance built from the same constructor arguments
PlainTwin == PoseidonInit(args)

OptCalled == inst.ok /\ inst.variant = "opt" /\ last.nth > 0

\* C1: for every input shorter than t, whenever the plain instance built from
\* the same parameters returns a field element for [domain_tag] + x + padding,
\* the optimized run_hash(x) returns that same field element.
C1_OptimizedAgreesWithPlain ==
    (OptCalled /\ Len(last.input) < inst.t) =>
        /\ PlainTwin.ok
        /\ LET ref == run_hash(PlainTwin, Fresh(PlainTwin),
                                domain_separation(inst, last.input)).out
           IN  ref.ok => last.out = ref

\* C2: whatever calls came before, run_hash(x) has the outcome of the first
\* run_hash(x) on a freshly constructed instance.
C2_RunHashIsPure ==
    (inst.ok /\ last.nth > 0) =>
        last.out = run_hash(inst, Fresh(inst), last.input).out

\* C2 witness: a call that returned a field element after earlier calls had
\* left the state vector and the cursor changed.
C2_Witness ==
    inst.ok /\ last.nth = 2 /\ last.out.ok /\ rc_counter > 0

WrongMatrixShape == args.mds_matrix.some /\ ~IsShaped(args.mds_matrix.v, args.t, args.t)

WrongRcCount ==
    args.rc_list.some
        /\ Len(args.rc_list.v) # args.t * (args.full_round + args.partial_round)

\* C8: construction with a supplied matrix that is not t x t, or with a
\* supplied constant list of the wrong length, yields no instance.
C8_WrongSizesRejected == (WrongMatrixShape \/ WrongRcCount) => ~inst.ok

\* C10: the optimized run_hash rejects exactly the inputs of length >= t,
\* with the input-length error and before the cursor or the state vector is
\* touched; an input of length < t is never rejected for its length.
C10_OptimizedLengthCheck ==
    [][(inst.ok /\ inst.variant = "opt" /\ last'.nth > 0) =>
          /\ Len(last'.input) >= inst.t =>
                /\ last'.out = Raise("Invalid length of input data")
                /\ state' = state
                /\ rc_counter' = rc_counter
          /\ Len(last'.input) < inst.t =>
                last'.out.err # "Invalid length of input data"]_vars

\* C10 witness: a rejected input of length t after an earlier call, the
\* fields still those the earlier call left.
C10_Witness ==
    /\ OptCalled /\ last.nth = 2
    /\ Len(last.input) = inst.t
    /\ last.out = Raise("Invalid length of input data")
    /\ rc_counter > 0 /\ state # Zeros(inst.t)

(***************************************************************************)
(* Two callers sharing one instance                                        *)
(***************************************************************************)

\* the instances shared by two callers: smallest field, width and round
\* numbers, generated tables, every variant and hash mode
ConcArgs ==
    {a \in ArgSet : /\ ValidArgs(a)
                    /\ a.p = 5 /\ a.t = 2 /\ a.full_round = 2
                    /\ ~a.mds_matrix.some /\ ~a.rc_list.some}

\* a caller that has not entered run_hash yet; ip is its next step
Caller(x) == [input |-> x, ip |-> 1, done |-> FALSE, out |-> Ok(0)]

InitConc ==
    /\ args \in ConcArgs
    /\ inst = Construct(args)
    /\ inst.ok
    /\ state = Zeros(inst.t)
    /\ rc_counter = 0
    /\ last = NoCall
    /\ callers \in {<<Caller(x), Caller(y)>> : x, y \in SeqsUpTo(WideVals, inst.t - 1)}
    /\ gen = Idle

\* caller c runs its next step of run_hash on the instance fields
CallerStep(c) ==
    /\ ~callers[c].done
    /\ LET me == callers[c]
           s  == Step(inst, Ops(inst)[me.ip],
                      [state |-> state, rc_counter |-> rc_counter], me.input)
       IN  /\ state' = s.state
           /\ rc_counter' = s.rc_counter
           /\ callers' = [callers EXCEPT ![c] = [input |-> me.input, ip |-> me.ip + 1,
                                                  done |-> s.done, out |-> s.out]]
    /\ UNCHANGED <<args, inst, last, gen>>

NextConc == \E c \in 1..2 : CallerStep(c)

SpecConc == InitConc /\ [][NextConc]_vars

\* C3: a call that has ended on a shared instance, whatever steps of the
\* other caller ran in between, has the outcome the same call has alone.
C3_InterleavedCallsAgreeWithAlone ==
    \A c \in DOMAIN callers :
        callers[c].done =>
            callers[c].out = run_hash(inst, Fresh(inst), callers[c].input).out

(***************************************************************************)
(* calc_round_constants, one loop iteration at a time                      *)
(***************************************************************************)

\* no instance is involved
NoInstance == Failed("no instance")

\* (p, alpha, prime_bit_len): the bit length of p, and one bit more
GrainFields == {<<5, 3, 3>>, <<7, 5, 3>>, <<11, 3, 4>>, <<13, 5, 4>>, <<5, 3, 4>>}

GrainParams ==
    { [t |-> t, full_round |-> rn[1], partial_round |-> rn[2],
       p |-> f[1], alpha |-> f[2], prime_bit_len |-> f[3]] :
        t \in Widths, rn \in RoundChoices, f \in GrainFields }

\* gen.g holds the locals of calc_round_constants after the 160 discarded
\* bits: the LFSR window, the bits of the block being collected, rc_field.
\* gen.raw records every bit the LFSR has put out since, in order.
InitRC ==
    /\ args = None
    /\ inst = NoInstance
    /\ state = <<>>
    /\ rc_counter = 0
    /\ last = NoCall
    /\ callers = <<>>
    /\ \E q \in GrainParams :
          gen = [fn |-> "calc_round_constants", par |-> q,
                 g |-> GrainStart(q.t, q.full_round, q.partial_round, q.p, q.alpha,
                                  q.prime_bit_len),
                 raw |-> <<>>, returned |-> FALSE]

RcNumber(q) == q.t * (q.full_round + q.partial_round)

\* one iteration of the loop of calc_next_bits
NextPair ==
    /\ ~gen.returned
    /\ Len(gen.g.rc_field) < RcNumber(gen.par)
    /\ Len(gen.g.bits) < gen.par.prime_bit_len
    /\ gen' = [gen EXCEPT !.g = PairStep(gen.g),
                          !.raw = gen.raw \o <<NewBit(gen.g.state),
                                                NewBit(LfsrShift(gen.g.state))>>]
    /\ UNCHANGED <<args, inst, state, rc_counter, last, callers>>

\* calc_next_bits returns; the block is accepted or discarded
NextBlock ==
    /\ ~gen.returned
    /\ Len(gen.g.rc_field) < RcNumber(gen.par)
    /\ Len(gen.g.bits) >= gen.par.prime_bit_len
    /\ gen' = [gen EXCEPT !.g = BlockStep(gen.g, gen.par.p)]
    /\ UNCHANGED <<args, inst, state, rc_counter, last, callers>>

\* return rc_field
ReturnRc ==
    /\ ~gen.returned
    /\ Len(gen.g.rc_field) >= RcNumber(gen.par)
    /\ gen' = [gen EXCEPT !.returned = TRUE]
    /\ UNCHANGED <<args, inst, state, rc_counter, last, callers>>

NextRC == NextPair \/ NextBlock \/ ReturnRc

SpecRC == InitRC /\ [][NextRC]_vars

\* the kept bits of an output stream: of each pair, the second bit when
\* the first is 1
SelfShrunk(raw) ==
    LET pairs == [k \in 1..(Len(raw) \div 2) |-> <<raw[2 * k - 1], raw[2 * k]>>]
        kept  == SelectSeq(pairs, LAMBDA q : q[1] = 1)
    IN  [k \in 1..Len(kept) |-> kept[k][2]]

\* the big-endian values of the first n blocks of w bits
BlockValues(bits, w, n) ==
    [b \in 1..n |-> BigEndian(SubSeq(bits, (b - 1) * w + 1, b * w))]

\* C4: the constants are the big-endian values below p of the blocks of
\* prime_bit_len kept bits, in the order of the blocks, a block of value
\* >= p giving no constant; each is in [0, p); at the return there are
\* exactly t * (full_round + partial_round) of them.
C4_RoundConstantsAreAcceptedBlocks ==
    LET q == gen.par
        kept == SelfShrunk(gen.raw)
        w == q.prime_bit_len
        closed == (Len(kept) - Len(gen.g.bits)) \div w
        values == BlockValues(kept, w, closed)
    IN  /\ Len(kept) = closed * w + Len(gen.g.bits)
        /\ gen.g.bits = SubSeq(kept, closed * w + 1, Len(kept))
        /\ gen.g.rc_field = SelectSeq(values, LAMBDA v : v < q.p)
        /\ \A k \in 1..Len(gen.g.rc_field) : gen.g.rc_field[k] \in 0..(q.p - 1)
        /\ gen.returned =>
              /\ Len(gen.g.rc_field) = RcNumber(q)
              /\ gen.g.rc_field = calc_round_constants(q.t, q.full_round,
                        q.partial_round, q.p, q.alpha, q.prime_bit_len)

\* C4 witness: the function has returned, some block on the way was
\* discarded for a value >= p and a later block was accepted.
C4_Witness ==
    LET q == gen.par
        kept == SelfShrunk(gen.raw)
        values == BlockValues(kept, q.prime_bit_len, Len(kept) \div q.prime_bit_len)
    IN  /\ gen.returned
        /\ Len(gen.g.rc_field) = RcNumber(q)
        /\ \E b \in 1..Len(values) : values[b] >= q.p /\ values[Len(values)] < q.p

(***************************************************************************)
(* optimized_matrix, one loop iteration at a time                          *)
(***************************************************************************)

\* every 2 x 2 matrix over GF(5), and a family of 3 x 3 matrices over GF(7)
MatrixInputs ==
    {[p |-> 5, mds_matrix |-> <<<<a, b>>, <<c, d>>>>] : a, b, c, d \in 0..4}
        \cup {[p |-> 7, mds_matrix |-> <<<<1, a, b>>, <<c, 2, d>>, <<e, 1, 3>>>>] :
                 a, b, c, d, e \in 0..2}

PartialRoundChoices == {1, 2, 3}

\* gen holds the arguments and the locals of optimized_matrix: r, m,
\* sparse_matrices; of the last call of sparse_factorize its argument,
\* arg_m, and its result, fact; out is the outcome once the function ended.
InitMat ==
    /\ args = None
    /\ inst = NoInstance
    /\ state = <<>>
    /\ rc_counter = 0
    /\ last = NoCall
    /\ callers = <<>>
    /\ \E q \in MatrixInputs, n \in PartialRoundChoices :
          gen = [fn |-> "optimized_matrix", p |-> q.p, mds_matrix |-> q.mds_matrix,
                 partial_round |-> n, r |-> 0, m |-> q.mds_matrix,
                 sparse_matrices |-> <<>>, arg_m |-> <<>>, fact |-> Ok(<<>>),
                 ended |-> FALSE, out |-> Ok(<<>>)]

\* one iteration of the loop: factorize m, keep m_2, continue with M @ m_1
FactorizeStep ==
    /\ ~gen.ended
    /\ gen.r < gen.partial_round
    /\ LET f == sparse_factorize(gen.m, gen.p)
       IN  gen' = IF ~f.ok
                  THEN [gen EXCEPT !.arg_m = gen.m, !.fact = f,
                                   !.ended = TRUE, !.out = f]
                  ELSE [gen EXCEPT !.arg_m = gen.m, !.fact = f, !.r = gen.r + 1,
                                   !.sparse_matrices = Append(@, f.val.m_2),
                                   !.m = MatMul(gen.mds_matrix, f.val.m_1, gen.p)]
    /\ UNCHANGED <<args, inst, state, rc_counter, last, callers>>

\* pre_matrix = m; sparse_matrices.reverse(); return
ReturnMatrices ==
    /\ ~gen.ended
    /\ gen.r >= gen.partial_round
    /\ gen' = [gen EXCEPT !.ended = TRUE,
                          !.out = Ok([pre_matrix |-> gen.m,
                                      sparse_matrices |-> Reverse(gen.sparse_matrices)])]
    /\ UNCHANGED <<args, inst, state, rc_counter, last, callers>>

NextMat == FactorizeStep \/ ReturnMatrices

SpecMat == InitMat /\ [][NextMat]_vars

\* sparse_factorize has been called at least once
Factorized == gen.arg_m # <<>>

\* C5: in every iteration whose matrix m has an invertible lower-right
\* block, sparse_factorize returns m_1 and m_2 with m = m_1 * m_2, m_1 being
\* m with first row and column zeroed but a 1 at (0,0), m_2 the identity but
\* its first row m's first row and its first column below the top the
\* solution x of m[1:,1:] * x = m[1:,0]; and the next m is M * m_1.
C5_SparseFactorization ==
    (Factorized /\ Invertible(LowerRight(gen.arg_m), gen.p)) =>
        LET m == gen.arg_m
            n == Len(m)
            m_1 == gen.fact.val.m_1
            m_2 == gen.fact.val.m_2
        IN  /\ gen.fact.ok
            /\ m = MatMul(m_1, m_2, gen.p)
            /\ \A i, j \in 1..n :
                  /\ m_1[i][j] = IF i = 1 /\ j = 1 THEN 1
                                 ELSE IF i = 1 \/ j = 1 THEN 0 ELSE m[i][j]
                  /\ i = 1 => m_2[i][j] = m[1][j]
                  /\ (i > 1 /\ j > 1) => m_2[i][j] = IF i = j THEN 1 ELSE 0
            /\ MatVec(LowerRight(m), FirstColTail(m_2), gen.p) = FirstColTail(m)
            /\ gen.m = MatMul(gen.mds_matrix, m_1, gen.p)
            /\ gen.sparse_matrices[gen.r] = m_2
            /\ (gen.ended /\ gen.out.ok) =>
                  gen.out = optimized_matrix(gen.mds_matrix, gen.partial_round, gen.p)

\* C5 witness: a 3 x 3 matrix in its second iteration or later, whose
\* factorization succeeded with a first column of m_2 that is not zero.
C5_Witness ==
    /\ Factorized /\ gen.r >= 2 /\ Len(gen.arg_m) = 3
    /\ Invertible(LowerRight(gen.arg_m), gen.p)
    /\ gen.fact.ok
    /\ FirstColTail(gen.fact.val.m_2) # <<0, 0>>
    /\ gen.arg_m # gen.mds_matrix

(***************************************************************************)
(* Round numbers: security_check and calc_round_numbers.                   *)
(* prime_bit_len, a float in the source, is carried in halves: the value   *)
(* 127 stands for 63.5.  log(2, alpha) and log2(t) are carried in          *)
(* millionths, rounded down; on the parameters below the results of ceil   *)
(* and floor are those of the source's floats.                             *)
(***************************************************************************)

\* range(1, 500) of the outer loop
RpStop == 500

\* range(4, 100, 2) of the inner loop
RfStart == 4

RfStop == 100

\* ceil(a / b) for b > 0
CeilDiv(a, b) == -((-a) \div b)

Min2(a, b) == IF a <= b THEN a ELSE b

Max2(a, b) == IF a >= b THEN a ELSE b

\* log(2, alpha) in millionths
LogTwoMicro(alpha) == IF alpha = 3 THEN 630929 ELSE 430676

\* log2(t) in millionths
Log2Micro(t) ==
    CASE t = 2 -> 1000000 [] t = 3 -> 1584962 [] t = 4 -> 2000000
      [] t = 5 -> 2321928 [] t = 8 -> 3000000 [] t = 9 -> 3169925

\* ceil(log(2, alpha) * num / den)
CeilMulLog(alpha, num, den) == CeilDiv(num * LogTwoMicro(alpha), den * 1000000)

RECURSIVE CeilLogFrom(_, _, _, _)
CeilLogFrom(k, v, t, base) ==
    IF v >= t THEN k ELSE CeilLogFrom(k + 1, v * base, t, base)

\* ceil(log(t, base)) for t >= 1
CeilLog(t, base) == CeilLogFrom(0, 1, t, base)

security_check(prime_bit_len, t, full_round, partial_round, alpha, security_level) ==
    LET c == IF alpha > 0 THEN (IF alpha = 3 THEN 1 ELSE 2) ELSE 2
        floor_n == prime_bit_len \div 2
        ceil_n == (prime_bit_len + 1) \div 2
        full_round_stat == IF security_level <= (floor_n - c) * (t + 1) THEN 6 ELSE 10
        full_round_inter ==
            CeilMulLog(alpha, Min2(security_level, ceil_n), 1) + CeilLog(t, alpha)
                - partial_round + 1
        full_round_GR_1 ==
            (IF 4 * security_level <= 3 * prime_bit_len
             THEN CeilMulLog(alpha, security_level, 3)
             ELSE CeilMulLog(alpha, prime_bit_len, 4)) - partial_round + 1
        full_round_GR_2 ==
            (IF 4 * security_level <= prime_bit_len * (t + 1)
             THEN CeilMulLog(alpha, security_level, t + 1)
             ELSE CeilMulLog(alpha, prime_bit_len, 4)) - partial_round + t - 1
        floor_rf_log == (full_round * Log2Micro(t)) \div 1000000
        partial_round_inter ==
            (Min2(security_level, ceil_n) + 1) \div 2 + CeilLog(t, 2) - floor_rf_log + 1
        partial_round_GR_2 ==
            (Min2(CeilDiv(security_level, t + 1), CeilDiv(prime_bit_len, 4)) + 1) \div 2
                + CeilLog(t, 2) + t - 1 - floor_rf_log
    IN  IF alpha > 0
        THEN Ok(full_round >= Max2(Max2(full_round_stat, full_round_inter),
                                   Max2(full_round_GR_1, full_round_GR_2)))
        ELSE IF alpha = -1
        THEN Ok(/\ full_round >= full_round_stat
                /\ partial_round >= Max2(partial_round_inter, partial_round_GR_2))
        ELSE Raise("SystemExit")

\* int(ceil(float(rp_i) * 1.075))
ScaleRp(rp_i) == (rp_i * 1075 + 999) \div 1000

\* min_cost = float("inf")
Infinity == -1

\* the locals of calc_round_numbers at its entry
RoundLocals ==
    [rp_i |-> 0, partial_round |-> 0, full_round |-> 0, min_cost |-> Infinity,
     max_cost_rf |-> 0, tested |-> <<>>, exited |-> FALSE]

\* the body of the inner loop for one rf_i; tested records the pair handed
\* to security_check
RfBody(L, rf_i, q, security_level) ==
    LET passed == security_check(q.prime_bit_len, q.t, rf_i, L.rp_i, q.alpha,
                                 security_level)
        seen == [L EXCEPT !.tested = Append(@, <<rf_i, L.rp_i>>)]
        rf_m == IF q.security_margin THEN rf_i + 2 ELSE rf_i
        rp_m == IF q.security_margin THEN ScaleRp(L.rp_i) ELSE L.rp_i
        cost == q.t * rf_m + rp_m
    IN  IF ~passed.ok THEN [seen EXCEPT !.exited = TRUE]
        ELSE IF ~passed.val THEN seen
        ELSE IF \/ L.min_cost = Infinity
                \/ cost < L.min_cost
                \/ (cost = L.min_cost /\ rf_m < L.max_cost_rf)
        THEN [seen EXCEPT !.rp_i = rp_m, !.partial_round = rp_m, !.full_round = rf_m,
                          !.min_cost = cost, !.max_cost_rf = rf_m]
        ELSE [seen EXCEPT !.rp_i = rp_m]

RECURSIVE RfLoop(_, _, _, _)
\* for rf_i in range(4, 100, 2), from rf_i on
RfLoop(L, rf_i, q, security_level) ==
    IF L.exited \/ rf_i >= RfStop THEN L
    ELSE RfLoop(RfBody(L, rf_i, q, security_level), rf_i + 2, q, security_level)

\* (prime_bit_len in halves, t, alpha)
RoundParams == {<<128, 5, 3>>, <<511, 3, 5>>, <<2000, 5, 3>>, <<127, 4, -1>>,
                <<17, 2, 3>>, <<16, 2, 0>>}

\* the security levels of two calls in a row, the second not the smaller
LevelPairs == {<<64, 128>>, <<512, 1024>>, <<128, 128>>}

\* gen holds the arguments, the locals of the running call, the value
\* rp_next the outer range yields next, the row just done, and the triples
\* returned so far.
InitRN ==
    /\ args = None
    /\ inst = NoInstance
    /\ state = <<>>
    /\ rc_counter = 0
    /\ last = NoCall
    /\ callers = <<>>
    /\ \E f \in RoundParams, m \in BOOLEAN, lv \in LevelPairs :
          \* the highest levels are tried on the longest prime, equal levels
          \* on the shortest ones
          /\ lv[2] > 128 => f[1] = 2000
          /\ lv[1] = lv[2] => f[1] <= 128
          /\ gen = [fn |-> "calc_round_numbers",
                    par |-> [prime_bit_len |-> f[1], t |-> f[2], alpha |-> f[3],
                             security_margin |-> m],
                    levels |-> lv, call |-> 1, rp_next |-> 1, row |-> 0,
                    loc |-> RoundLocals, results |-> <<>>, exited |-> FALSE]

Running == ~gen.exited /\ gen.call <= Len(gen.levels)

\* one iteration of the outer loop: the whole inner loop for one rp_i
RowStep ==
    /\ Running
    /\ gen.rp_next < RpStop
    /\ LET L == RfLoop([gen.loc EXCEPT !.rp_i = gen.rp_next, !.tested = <<>>],
                       RfStart, gen.par, gen.levels[gen.call])
       IN  gen' = [gen EXCEPT !.loc = L, !.row = gen.rp_next,
                              !.rp_next = gen.rp_next + 1, !.exited = L.exited]
    /\ UNCHANGED <<args, inst, state, rc_counter, last, callers>>

\* return int(full_round), int(partial_round), int(full_round / 2);
\* the next call, if any, starts
ReturnRounds ==
    /\ Running
    /\ gen.rp_next >= RpStop
    /\ gen' = [gen EXCEPT
                 !.results = Append(@, <<gen.loc.full_round, gen.loc.partial_round,
                                         gen.loc.full_round \div 2>>),
                 !.call = gen.call + 1, !.rp_next = 1, !.row = 0,
                 !.loc = RoundLocals]
    /\ UNCHANGED <<args, inst, state, rc_counter, last, callers>>

NextRN == RowStep \/ ReturnRounds

SpecRN == InitRN /\ [][NextRN]_vars

\* the values of rf_i the inner loop enumerates
RfRange == {rf \in RfStart..(RfStop - 1) : (rf - RfStart) % 2 = 0}

\* the pairs (rf, rp) of the two ranges that pass security_check as they are
PassingPairs(q, security_level) ==
    {c \in RfRange \X (1..(RpStop - 1)) :
        security_check(q.prime_bit_len, q.t, c[1], c[2], q.alpha, security_level).val}

\* the pair after the margin, if the flag is set
WithMargin(q, c) == IF q.security_margin THEN <<c[1] + 2, ScaleRp(c[2])>> ELSE c

CostOf(q, c) == q.t * c[1] + c[2]

\* a call has just returned
JustReturned == Len(gen.results) > 0 /\ gen.rp_next = 1 /\ gen.row = 0

\* the triple just returned is that of the passing pair of least cost after
\* the margin, the smaller rf winning a tie
SelectedIsCheapestPassing ==
    JustReturned =>
        LET q == gen.par
            passing == PassingPairs(q, gen.levels[Len(gen.results)])
            costs == {CostOf(q, WithMargin(q, c)) : c \in passing}
            least == CHOOSE m \in costs : \A k \in costs : m <= k
            cheapest == {c \in passing : CostOf(q, WithMargin(q, c)) = least}
            best == WithMargin(q, CHOOSE c \in cheapest : \A d \in cheapest : c[1] <= d[1])
        IN  passing # {} =>
                gen.results[Len(gen.results)] = <<best[1], best[2], best[1] \div 2>>

\* in the row just done, security_check was handed every rf of the range
\* with the rp of that row
TestedAsEnumerated ==
    (gen.row > 0 /\ ~gen.exited) =>
        gen.loc.tested = [k \in 1..((RfStop - RfStart) \div 2) |->
                             <<RfStart + 2 * (k - 1), gen.row>>]

\* C6: the returned triple is that of the passing pair (rf, rp), passing at
\* its own unscaled values, of least cost after the margin (the cost as it
\* is with the flag clear), ties to the smaller rf; and the margin applied
\* to a passing candidate leaves the candidates tested after it unchanged.
C6_CheapestPassingPairSelected ==
    gen.fn = "calc_round_numbers" => (SelectedIsCheapestPassing /\ TestedAsEnumerated)

\* C7: of two calls that differ in the security level only, the one with
\* the higher level returns a pair whose cost is not the smaller one.
C7_CostMonotonicInSecurityLevel ==
    (gen.fn = "calc_round_numbers" /\ Len(gen.results) = 2) =>
        CostOf(gen.par, gen.results[2]) >= CostOf(gen.par, gen.results[1])

(***************************************************************************)
(* mds_matrix_generator, one matrix entry at a time                        *)
(***************************************************************************)

\* the widest matrix generated
MaxMdsWidth == 4

Primes == {2, 3, 5, 7, 11, 13, 17, 19, 23}

\* gen holds the arguments, the position in the function (pc), the loop
\* indices i and j, the matrix being filled and the outcome once ended.
InitMDS ==
    /\ args = None
    /\ inst = NoInstance
    /\ state = <<>>
    /\ rc_counter = 0
    /\ last = NoCall
    /\ callers = <<>>
    /\ \E p \in Primes, t \in 1..MaxMdsWidth :
          gen = [fn |-> "mds_matrix_generator", p |-> p, t |-> t, pc |-> "vectors",
                 i |-> 0, j |-> 0, mds_matrix |-> <<>>, ended |-> FALSE,
                 out |-> Ok(<<>>)]

\* x_vec, y_vec and the zero matrix
MakeVectors ==
    /\ ~gen.ended /\ gen.pc = "vectors"
    /\ gen' = IF \E ele \in 0..(2 * gen.t - 1) : ~InField(ele, gen.p)
              THEN [gen EXCEPT !.ended = TRUE, !.out = Raise("ValueError")]
              ELSE [gen EXCEPT !.pc = "fill",
                               !.mds_matrix = [i \in 1..gen.t |-> Zeros(gen.t)]]
    /\ UNCHANGED <<args, inst, state, rc_counter, last, callers>>

\* mds_matrix[i, j] = (x_vec[i] + y_vec[j]) ** (-1), and the loop indices
\* move on
FillEntry ==
    /\ ~gen.ended /\ gen.pc = "fill" /\ gen.i < gen.t
    /\ gen' = IF CauchySum(gen.i, gen.j, gen.t, gen.p) = 0
              THEN [gen EXCEPT !.ended = TRUE, !.out = Raise("ZeroDivisionError")]
              ELSE [gen EXCEPT
                      !.mds_matrix[gen.i + 1][gen.j + 1] =
                          CauchyEntry(gen.i, gen.j, gen.t, gen.p),
                      !.i = IF gen.j + 1 = gen.t THEN gen.i + 1 ELSE gen.i,
                      !.j = IF gen.j + 1 = gen.t THEN 0 ELSE gen.j + 1]
    /\ UNCHANGED <<args, inst, state, rc_counter, last, callers>>

\* return mds_matrix
ReturnMds ==
    /\ ~gen.ended /\ gen.pc = "fill" /\ gen.i >= gen.t
    /\ gen' = [gen EXCEPT !.ended = TRUE, !.out = Ok(gen.mds_matrix)]
    /\ UNCHANGED <<args, inst, state, rc_counter, last, callers>>

NextMDS == MakeVectors \/ FillEntry \/ ReturnMds

SpecMDS == InitMDS /\ [][NextMDS]_vars

\* no i + j + t is 0 modulo p
NoZeroSum(p, t) == \A i, j \in 0..(t - 1) : (i + j + t) % p # 0

\* C9: when no i + j + t is 0 modulo p the generator returns a t x t
\* matrix whose entry (i, j) times (i + j + t) is 1 modulo p; when some
\* i + j + t is 0 modulo p, or some element of [0, 2t) is no field element,
\* it ends with an error and no matrix.
C9_MdsEntriesAreInverses ==
    (gen.fn = "mds_matrix_generator" /\ gen.ended) =>
        /\ NoZeroSum(gen.p, gen.t) =>
              /\ gen.out.ok
              /\ IsShaped(gen.out.val, gen.t, gen.t)
              /\ \A i, j \in 0..(gen.t - 1) :
                    /\ gen.out.val[i + 1][j + 1] \in 0..(gen.p - 1)
                    /\ (gen.out.val[i + 1][j + 1] * (i + j + gen.t)) % gen.p = 1
        /\ (~NoZeroSum(gen.p, gen.t) \/ (\E e \in 0..(2 * gen.t - 1) : e >= gen.p)) =>
              ~gen.out.ok
        /\ gen.out = mds_matrix_generator(gen.p, gen.t)

\* C9 witness: a returned matrix of width 3 or more with an entry that is
\* neither 0 nor 1.
C9_Witness ==
    /\ gen.fn = "mds_matrix_generator" /\ gen.ended /\ gen.out.ok /\ gen.t >= 3
    /\ \E i, j \in 1..gen.t : gen.out.val[i][j] > 1

(***************************************************************************)
(* domain_separation on its own                                            *)
(***************************************************************************)

\* the largest input_rate and the longest input handed to domain_separation
MaxRate == 4

MaxInputLen == 4

\* gen holds self (hash_type, input_rate), the caller's list input_vec
\* before and after the call, and the list returned.
InitDS ==
    /\ args = None
    /\ inst = NoInstance
    /\ state = <<>>
    /\ rc_counter = 0
    /\ last = NoCall
    /\ callers = <<>>
    /\ \E h \in {"MerkleTree", "ConstInputLen"}, r \in 0..MaxRate,
          x \in SeqsUpTo(WideVals, MaxInputLen) :
          gen = [fn |-> "domain_separation",
                 self |-> [hash_type |-> h, input_rate |-> r],
                 input_vec |-> x, input_after |-> x, returned |-> FALSE,
                 out |-> <<>>]

\* the call: a new list is built, input_vec is only read
DomainSeparate ==
    /\ ~gen.returned
    /\ gen' = [gen EXCEPT !.returned = TRUE,
                          !.out = domain_separation(gen.self, gen.input_vec),
                          !.input_after = gen.input_vec]
    /\ UNCHANGED <<args, inst, state, rc_counter, last, callers>>

NextDS == DomainSeparate

SpecDS == InitDS /\ [][NextDS]_vars

\* C11: the list returned is [tag] + x + padding and x is left as it was;
\* merkle-tree mode: tag 2^len(x) - 1, no padding; constant-input-length
\* mode: tag len(x) * 2^64, max(0, input_rate - len(x)) zeros of padding;
\* in the latter the length is 1 + max(len(x), input_rate).
C11_DomainSeparationLayout ==
    (gen.fn = "domain_separation" /\ gen.returned) =>
        LET x == gen.input_vec
            n == Len(x)
            r == gen.self.input_rate
            pad == IF gen.self.hash_type = "ConstInputLen" /\ r > n THEN r - n ELSE 0
        IN  /\ gen.input_after = x
            /\ Len(gen.out) = 1 + n + pad
            /\ SubSeq(gen.out, 2, n + 1) = x
            /\ \A k \in (n + 2)..Len(gen.out) : gen.out[k] = <<0, 0>>
            /\ gen.self.hash_type = "MerkleTree" =>
                  /\ gen.out[1][1] = 0
                  /\ gen.out[1][2] + 1 = Pow2(n)
            /\ gen.self.hash_type = "ConstInputLen" =>
                  /\ gen.out[1] = <<n, 0>>
                  /\ Len(gen.out) = 1 + (IF n >= r THEN n ELSE r)

\* C11 witness: a list returned for an input of two or more elements, in
\* merkle-tree mode with a tag above 1 or in constant-input-length mode with
\* padding added.
C11_Witness ==
    /\ gen.fn = "domain_separation" /\ gen.returned
    /\ Len(gen.input_vec) >= 2
    /\ \/ gen.self.hash_type = "MerkleTree" /\ gen.out[1][2] > 1
       \/ /\ gen.self.hash_type = "ConstInputLen"
          /\ gen.self.input_rate > Len(gen.input_vec)

(***************************************************************************)
(* Failures of run_hash                                                    *)
(***************************************************************************)

\* C12: a run_hash call that fails leaves the state vector and the constant
\* cursor of the instance as they were before the call.
C12_FailedCallLeavesInstanceUntouched ==
    [][(inst.ok /\ last'.nth > 0 /\ ~last'.out.ok) =>
          (state' = state /\ rc_counter' = rc_counter)]_vars

(***************************************************************************)
(* calc_round_constants called for two parameter tuples                    *)
(***************************************************************************)

SeedTuples ==
    { [t |-> t, full_round |-> f, partial_round |-> r, p |-> p, alpha |-> a,
       prime_bit_len |-> n] :
        t \in Widths, f \in {2, 4}, r \in {1, 2}, p \in {5, 7, 11, 13},
        a \in {3, 5, 7, 11}, n \in {3, 4} }

\* the number of components in which two tuples differ
Differences(a, b) ==
    Cardinality({k \in DOMAIN a : a[k] # b[k]})

\* gen holds the two tuples and, per call made so far, the seed
\* init_state_for_grain returned and the constants returned.
InitSeed ==
    /\ args = None
    /\ inst = NoInstance
    /\ state = <<>>
    /\ rc_counter = 0
    /\ last = NoCall
    /\ callers = <<>>
    /\ \E a, b \in SeedTuples :
          /\ Differences(a, b) = 1
          /\ gen = [fn |-> "calc_round_constants twice", tuples |-> <<a, b>>,
                    seeds |-> <<>>, constants |-> <<>>]

\* the next call of calc_round_constants, from entry to return
GenerateConstants ==
    /\ gen.fn = "calc_round_constants twice"
    /\ Len(gen.constants) < Len(gen.tuples)
    /\ LET q == gen.tuples[Len(gen.constants) + 1]
       IN  gen' = [gen EXCEPT
                     !.seeds = Append(@, init_state_for_grain(q.alpha, q.p,
                                   q.prime_bit_len, q.t, q.full_round, q.partial_round)),
                     !.constants = Append(@, calc_round_constants(q.t, q.full_round,
                                   q.partial_round, q.p, q.alpha, q.prime_bit_len))]
    /\ UNCHANGED <<args, inst, state, rc_counter, last, callers>>

NextSeed == GenerateConstants

SpecSeed == InitSeed /\ [][NextSeed]_vars

\* C13: two tuples that differ in exactly one component give different
\* constant sequences, and if that component is alpha, different seeds.
C13_OneParameterChangesConstants ==
    (gen.fn = "calc_round_constants twice" /\ Len(gen.constants) = 2) =>
        /\ gen.constants[1] # gen.constants[2]
        /\ gen.tuples[1].alpha # gen.tuples[2].alpha => gen.seeds[1] # gen.seeds[2]

(***************************************************************************)
(* Rounds and constants of the plain run_hash                              *)
(***************************************************************************)

\* the positions in ops of the steps of kind k
StepsOfKind(ops, k) == {n \in DOMAIN ops : ops[n].k = k}

\* C14: on a plain instance, odd full_round included, a successful run_hash
\* applies full_round + partial_round rounds (one matrix multiplication
\* each), adds one constant per table entry, and leaves the cursor at
\* t * (full_round + partial_round), the length of the table.
C14_PlainRunConsumesWholeTable ==
    (inst.ok /\ inst.variant = "plain" /\ last.nth > 0 /\ last.out.ok) =>
        /\ Cardinality(StepsOfKind(Ops(inst), "matmul"))
              = inst.full_round + inst.partial_round
        /\ Cardinality(StepsOfKind(Ops(inst), "arc")) = Len(inst.rc_field)
        /\ rc_counter = inst.t * (inst.full_round + inst.partial_round)
        /\ rc_counter = Len(inst.rc_field)

(***************************************************************************)
(* Length of the state vector                                              *)
(***************************************************************************)

\* C15: the state vector of an instance has length t after construction
\* and after every run_hash call, whatever its input.
C15_StateLengthIsT == inst.ok => Len(state) = inst.t

(***************************************************************************)
(* init_state_for_grain and the LFSR window                                *)
(***************************************************************************)

\* the number of update steps followed after the seed
MaxShifts == 3

\* values at and beyond the widths of the seed's fields (12, 12, 10, 10 bits)
SeedParams ==
    { [alpha |-> a, p |-> p, prime_bit_len |-> n, t |-> t, full_round |-> f,
       partial_round |-> r] :
        a \in {3, 5, -1, 7}, p \in {2, 5}, n \in {3, 255, 4095},
        t \in {2, 9, 4096}, f \in {8, 1023}, r \in {1, 56, 1024} }

\* gen holds the arguments, the window (the list init_state_for_grain
\* returned, then updated in place), the window before the last update and
\* the number of updates made.
InitGrain ==
    /\ args = None
    /\ inst = NoInstance
    /\ state = <<>>
    /\ rc_counter = 0
    /\ last = NoCall
    /\ callers = <<>>
    /\ \E q \in SeedParams :
          gen = [fn |-> "init_state_for_grain", par |-> q, seeded |-> FALSE,
                 window |-> <<>>, before |-> <<>>, shifts |-> 0]

\* state = init_state_for_grain(...)
SeedWindow ==
    /\ gen.fn = "init_state_for_grain" /\ ~gen.seeded
    /\ LET q == gen.par
       IN  gen' = [gen EXCEPT
                     !.seeded = TRUE,
                     !.window = init_state_for_grain(q.alpha, q.p, q.prime_bit_len,
                                                     q.t, q.full_round, q.partial_round)]
    /\ UNCHANGED <<args, inst, state, rc_counter, last, callers>>

\* new_bit = ...; state.pop(0); state.append(new_bit)
ShiftWindow ==
    /\ gen.fn = "init_state_for_grain" /\ gen.seeded
    /\ gen.shifts < MaxShifts
    /\ gen' = [gen EXCEPT !.before = gen.window, !.window = LfsrShift(gen.window),
                          !.shifts = gen.shifts + 1]
    /\ UNCHANGED <<args, inst, state, rc_counter, last, callers>>

NextGrain == SeedWindow \/ ShiftWindow

SpecGrain == InitGrain /\ [][NextGrain]_vars

\* the tag of the S-box in the seed
SBoxTag(alpha) == CASE alpha = 3 -> 0 [] alpha = 5 -> 1 [] alpha = -1 -> 2 [] OTHER -> 3

\* C16: the seed has 80 bits: 2 of p mod 2, 4 of the S-box tag, 12 of
\* prime_bit_len, 12 of t, 10 of full_round, 10 of partial_round, 30 ones,
\* each field most-significant bit first; and the window has 80 bits after
\* every update, which drops the oldest bit and appends the XOR of the
\* positions 62, 51, 38, 23, 13, 0.
C16_SeedLayoutAndWindowLength ==
    (gen.fn = "init_state_for_grain" /\ gen.seeded) =>
        LET q == gen.par
            w == gen.window
            b == gen.before
        IN  /\ Len(w) = 80
            /\ gen.shifts = 0 =>
                  /\ BigEndian(SubSeq(w, 1, 2)) = q.p % 2
                  /\ BigEndian(SubSeq(w, 3, 6)) = SBoxTag(q.alpha)
                  /\ BigEndian(SubSeq(w, 7, 18)) = q.prime_bit_len
                  /\ BigEndian(SubSeq(w, 19, 30)) = q.t
                  /\ BigEndian(SubSeq(w, 31, 40)) = q.full_round
                  /\ BigEndian(SubSeq(w, 41, 50)) = q.partial_round
                  /\ \A k \in 51..80 : w[k] = 1
            /\ gen.shifts > 0 =>
                  /\ SubSeq(w, 1, 79) = SubSeq(b, 2, 80)
                  /\ w[80] = (b[63] + b[52] + b[39] + b[24] + b[14] + b[1]) % 2

(***************************************************************************)
(* optimized_rc on its own                                                 *)
(***************************************************************************)

\* the largest half_full_round and partial_round handed to optimized_rc
MaxHalfRounds == 3

MaxPartialRounds == 3

\* (p, mds_matrix): generated matrices and supplied ones, not symmetric too
OptRcMatrices ==
    {<<f[1], mds_matrix_generator(f[1], f[2]).val>> :
        f \in {<<5, 2>>, <<7, 2>>, <<11, 2>>, <<11, 3>>, <<13, 3>>}}
      \cup {<<p, m>> : p \in {5, 7}, m \in {<<<<1, 2>>, <<2, 1>>>>, <<<<1, 2>>, <<3, 4>>>>}}

\* gen holds the arguments of optimized_rc (rc as its list of chunks) and
\* its outcome.
InitOptRc ==
    /\ args = None
    /\ inst = NoInstance
    /\ state = <<>>
    /\ rc_counter = 0
    /\ last = NoCall
    /\ callers = <<>>
    /\ \E f \in OptRcMatrices, h \in 0..MaxHalfRounds, r \in 1..MaxPartialRounds,
          odd \in 0..1 :
          LET t == Len(f[2])
              full_round == 2 * h + odd
          IN  gen = [fn |-> "optimized_rc", p |-> f[1], t |-> t,
                     rc |-> SplitRc(calc_round_constants(t, full_round, r, f[1], 3,
                                                         CeilLog2(f[1])), t),
                     half_full_round |-> h, partial_round |-> r,
                     mds_matrix |-> f[2], returned |-> FALSE, out |-> Ok(<<>>)]

\* the call, from entry to return or exception
OptimizeRc ==
    /\ gen.fn = "optimized_rc" /\ ~gen.returned
    /\ gen' = [gen EXCEPT !.returned = TRUE,
                          !.out = optimized_rc(gen.rc, gen.half_full_round,
                                               gen.partial_round, gen.mds_matrix, gen.p)]
    /\ UNCHANGED <<args, inst, state, rc_counter, last, callers>>

NextOptRc == OptimizeRc

SpecOptRc == InitOptRc /\ [][NextOptRc]_vars

OptRcReturned == gen.fn = "optimized_rc" /\ gen.returned /\ gen.out.ok

\* C17 as stated: the table returned by optimized_rc has
\* t * (2 * half_full_round - 1) + partial_round + 2 * t elements.
C17_OptimizedTableLengthAsStated ==
    OptRcReturned =>
        Len(gen.out.val) = gen.t * (2 * gen.half_full_round - 1) + gen.partial_round
                              + 2 * gen.t

\* C17: the table returned by optimized_rc has
\* 2 * t * max(half_full_round, 1) + partial_round elements, each a field
\* element.
C17_OptimizedTableLength ==
    OptRcReturned =>
        /\ Len(gen.out.val) = 2 * gen.t * Max2(gen.half_full_round, 1) + gen.partial_round
        /\ \A k \in 1..Len(gen.out.val) : gen.out.val[k] \in 0..(gen.p - 1)

\* C17 witness: a table returned for width 3, two or more full rounds on
\* each side and two or more partial rounds.
C17_Witness ==
    OptRcReturned /\ gen.t = 3 /\ gen.half_full_round >= 2 /\ gen.partial_round >= 2

(***************************************************************************)
(* One optimized run_hash call, step by step                               *)
(***************************************************************************)

\* the optimized instances of the sequential model
StepArgs == {a \in ArgSet : ValidArgs(a) /\ a.variant = "opt"}

\* The instance is fresh or as an earlier run_hash([]) left it.  gen.reads
\* lists, for the running call, the value of the cursor at each read of the
\* table of constants.
InitSteps ==
    /\ args \in StepArgs
    /\ inst = Construct(args)
    /\ inst.ok
    /\ \E earlier \in {Fresh(inst), run_hash(inst, Fresh(inst), <<>>)} :
          /\ state = earlier.state
          /\ rc_counter = earlier.rc_counter
    /\ last = NoCall
    /\ callers \in {<<Caller(x)>> : x \in SeqsUpTo(WideVals, inst.t - 1)}
    /\ gen = [fn |-> "run_hash steps", reads |-> <<>>]

\* the next step of the call
RunStep ==
    /\ gen.fn = "run_hash steps"
    /\ ~callers[1].done
    /\ LET me == callers[1]
           op == Ops(inst)[me.ip]
           s  == Step(inst, op, [state |-> state, rc_counter |-> rc_counter], me.input)
       IN  /\ state' = s.state
           /\ rc_counter' = s.rc_counter
           /\ callers' = [callers EXCEPT ![1] = [input |-> me.input, ip |-> me.ip + 1,
                                                  done |-> s.done, out |-> s.out]]
           /\ gen' = [gen EXCEPT !.reads =
                        IF op.k = "enter_opt" THEN <<>>
                        ELSE IF op.k = "arc_opt" /\ ~s.done THEN Append(@, rc_counter)
                        ELSE @]
    /\ UNCHANGED <<args, inst, last>>

NextSteps == RunStep

SpecSteps == InitSteps /\ [][NextSteps]_vars

\* C18: in an optimized run_hash the reads of the table start at index 0
\* and go up by one, inside the table, the cursor being the number of reads
\* made; and when the call returns an output the cursor is the length of
\* the table, every entry having been read once, in order.
C18_OptimizedRunReadsWholeTableInOrder ==
    (gen.fn = "run_hash steps" /\ callers[1].ip > 1 /\ callers[1].out.err # "ValueError") =>
        /\ \A k \in 1..Len(gen.reads) :
              gen.reads[k] = k - 1 /\ gen.reads[k] < Len(inst.opt_rc_field)
        /\ rc_counter = Len(gen.reads)
        /\ (callers[1].done /\ callers[1].out.ok) =>
              /\ rc_counter = Len(inst.opt_rc_field)
              /\ gen.reads = [k \in 1..Len(inst.opt_rc_field) |-> k - 1]

\* C18 witness: a call on an instance with two full rounds on each side
\* has read constants and returned an output.
C18_Witness ==
    /\ gen.fn = "run_hash steps"
    /\ callers[1].done /\ callers[1].out.ok
    /\ inst.half_full_round >= 2
    /\ Len(gen.reads) > 0

====
